---- MODULE Spec2Model ----
(***************************************************************************)
(* CloudflareKVCache: a cache adapter over a remote key-value namespace.   *)
(* The repository holds the class twice: src/src/kv-cache.ts, whose get    *)
(* lets a failed remote read propagate, and src/unnamed/part_001, whose    *)
(* get catches it; every other method is the same text in both files.      *)
(*                                                                         *)
(* A string is a tuple of one-character strings, so that prefixing is      *)
(* concatenation and the namespace's prefix filter is a real comparison.   *)
(* An optional argument is Nothing (left out) or Just(x).                  *)
(***************************************************************************)
EXTENDS Integers, Sequences, FiniteSets, TLC

VARIABLES
    options,     \* the options object handed to the constructor
    keyPrefix,   \* this.keyPrefix
    defaultTTL,  \* this.defaultTTL
    kv,          \* the remote namespace: name -> stored text, or Absent
    op,          \* the adapter call in progress, or the last one made
    pc,          \* "idle", or "deleting" while Promise.all is awaited
    trace,       \* the remote calls the call of op has issued, in order
    result,      \* how the promise of the call of op has settled
    last,        \* history: key -> what its last undisturbed set or delete did
    pre,         \* history: the namespace when a delete or a sweep began
    quiet        \* history: nothing else touched the namespace since then

vars == <<options, keyPrefix, defaultTTL, kv, op, pc, trace, result,
          last, pre, quiet>>

config == <<options, keyPrefix, defaultTTL>>

----------------------------------------------------------------------------
(* Bounds and program constants *)

(* The most keys one list call of the namespace returns (its page size);   *)
(* a listing with more matching names comes back with list_complete false.  *)
ListLimit == 2

DefaultTtlMs == 5000

MsPerSecond == 1000

MinTtlSeconds == 60

----------------------------------------------------------------------------
(* Optional values, strings, JavaScript values *)

Nothing == <<>>

Just(x) == <<x>>

Val(o) == o[1]

DefaultPrefix == <<"s", "c", "h", "e", "m", "a", "t", "i", "c", ":">>

CustomPrefix == <<"p", ":">>

Keys == {<<"a">>, <<"b">>, <<"c">>}

Foreign == <<"o", ":", "a">>

Names == {p \o k : p \in {DefaultPrefix, CustomPrefix}, k \in Keys} \cup {Foreign}

PrefixOptions == {Nothing, Just(<<>>), Just(CustomPrefix)}

TtlOptions == {Nothing, Just(0), Just(3600000)}

TtlOverrides == {Nothing, Just(0)}

TtlInputs ==
    {Nothing} \cup {Just(t) : t \in {-1, 0, 1, 1500, 59999, 60000, 60001, 125000, 125001}}

JsUndefined == [t |-> "undefined", n |-> 0]

JsNull == [t |-> "null", n |-> 0]

JsNumber(n) == [t |-> "number", n |-> n]

Values == {JsNumber(1), JsNull}

Absent == "<absent>"

ExternalTexts == {"2", "{"}

Numerals == 0..9

StartsWith(s, p) == Len(p) <= Len(s) /\ SubSeq(s, 1, Len(p)) = p

CharCode(c) ==
    CASE c = ":" -> 58 [] c = "a" -> 97 [] c = "b" -> 98 [] c = "c" -> 99
      [] c = "e" -> 101 [] c = "h" -> 104 [] c = "i" -> 105 [] c = "m" -> 109
      [] c = "o" -> 111 [] c = "p" -> 112 [] c = "s" -> 115 [] c = "t" -> 116

RECURSIVE LexLess(_, _)
LexLess(s, t) ==
    IF s = <<>> THEN t # <<>>
    ELSE IF t = <<>> THEN FALSE
    ELSE IF Head(s) = Head(t) THEN LexLess(Tail(s), Tail(t))
    ELSE CharCode(Head(s)) < CharCode(Head(t))

RECURSIVE SortedSeq(_)
SortedSeq(S) ==
    IF S = {} THEN <<>>
    ELSE LET m == CHOOSE x \in S : \A y \in S \ {x} : LexLess(x, y)
         IN  <<m>> \o SortedSeq(S \ {m})

Min(a, b) == IF a <= b THEN a ELSE b

----------------------------------------------------------------------------
(* JSON text encoding *)

JSONStringify(v) ==
    CASE v.t = "number" -> ToString(v.n)
      [] v.t = "null" -> "null"

JSONParse(text) ==
    IF text = "null" THEN [ok |-> TRUE, value |-> JsNull]
    ELSE IF \E n \in Numerals : ToString(n) = text
         THEN [ok |-> TRUE,
               value |-> JsNumber(CHOOSE n \in Numerals : ToString(n) = text)]
         ELSE [ok |-> FALSE, value |-> JsUndefined]

----------------------------------------------------------------------------
(* The remote namespace (KVNamespace) *)

Stored(store, name) == IF name \in DOMAIN store THEN store[name] ELSE Absent

KvGet(store, name) ==
    IF Stored(store, name) = Absent THEN [ok |-> TRUE, value |-> JsNull]
    ELSE JSONParse(store[name])

KvPut(store, name, text) == (name :> text) @@ store

KvDelete(store, name) ==
    [n \in DOMAIN store |-> IF n = name THEN Absent ELSE store[n]]

KvList(store, prefix) ==
    LET matching == {n \in DOMAIN store : store[n] # Absent /\ StartsWith(n, prefix)}
        sorted == SortedSeq(matching)
    IN  [keys |-> SubSeq(sorted, 1, Min(ListLimit, Len(sorted))),
         list_complete |-> Len(sorted) <= ListLimit]

----------------------------------------------------------------------------
(* The adapter's pure parts *)

StringOr(o, d) == IF o = Nothing \/ Val(o) = <<>> THEN d ELSE Val(o)

NumberOr(o, d) == IF o = Nothing \/ Val(o) = 0 THEN d ELSE Val(o)

(* Faulty variant: the prefix is forgotten. *)
getFullKeyUnprefixed(key) == key

getFullKey(key) == keyPrefix \o key

MathCeil(num, den) == -((-num) \div den)

MathMax(a, b) == IF a >= b THEN a ELSE b

(* Faulty variant: || in place of ??, so that 0 counts as left out. *)
NullishOrZeroAsMissing(o, d) == IF o = Nothing \/ Val(o) = 0 THEN d ELSE Val(o)

NullishOr(o, d) == IF o = Nothing THEN d ELSE Val(o)

(* Faulty variant: the 60 second floor is forgotten. *)
ttlSecondsNoFloor(ttl) == MathCeil(ttl, MsPerSecond)

ttlSeconds(ttl) == MathMax(MathCeil(ttl, MsPerSecond), MinTtlSeconds)

(* Faulty variant: Promise.allSettled, which never rejects. *)
PromiseAllSettled(statuses) ==
    IF \E i \in DOMAIN statuses : statuses[i] = "pending" THEN "pending"
    ELSE "fulfilled"

PromiseAll(statuses) ==
    IF \E i \in DOMAIN statuses : statuses[i] = "fail" THEN "rejected"
    ELSE IF \A i \in DOMAIN statuses : statuses[i] = "ok" THEN "fulfilled"
    ELSE "pending"

----------------------------------------------------------------------------
(* Records of the bookkeeping *)

Call(name, src, key, value, ttlOverride, keysToKeep) ==
    [name |-> name, src |-> src, key |-> key, value |-> value,
     ttlOverride |-> ttlOverride, keysToKeep |-> keysToKeep, ttl |-> 0]

NoCall == Call("none", "both", <<>>, JsUndefined, Nothing, {})

RemoteCall(call, key, text, ttl, status) ==
    [call |-> call, key |-> key, text |-> text, ttl |-> ttl, status |-> status]

Settled(status, value) == [status |-> status, value |-> value]

NoSnapshot == [n \in Names |-> Absent]

PendingDeletes(tr) ==
    {tr[i].key : i \in {j \in DOMAIN tr :
        tr[j].call = "delete" /\ tr[j].status = "pending"}}

Untouched == [kind |-> "none", value |-> JsUndefined, existed |-> FALSE]

WasSet(value) == [kind |-> "set", value |-> value, existed |-> FALSE]

WasDeleted(existed) ==
    [kind |-> "deleted", value |-> JsUndefined, existed |-> existed]

FullKey(key) == keyPrefix \o key

Disturb(name) ==
    [k \in Keys |-> IF FullKey(k) = name THEN Untouched ELSE last[k]]

DeleteStatuses(tr) ==
    LET ds == SelectSeq(tr, LAMBDA c : c.call = "delete")
    IN  [i \in DOMAIN ds |-> ds[i].status]

----------------------------------------------------------------------------
(* Construction *)

constructor(o) ==
    /\ options = o
    /\ keyPrefix = StringOr(o.keyPrefix, DefaultPrefix)
    /\ defaultTTL = NumberOr(o.ttl, DefaultTtlMs)

Start ==
    /\ kv = [n \in Names |-> Absent]
    /\ op = NoCall
    /\ pc = "idle"
    /\ trace = <<>>
    /\ result = Settled("none", JsUndefined)
    /\ last = [k \in Keys |-> Untouched]
    /\ pre = NoSnapshot
    /\ quiet = TRUE

Init ==
    /\ \E p \in PrefixOptions : constructor([keyPrefix |-> p, ttl |-> Nothing])
    /\ Start

InitTtl ==
    /\ \E o \in [keyPrefix : PrefixOptions, ttl : TtlOptions] : constructor(o)
    /\ Start

----------------------------------------------------------------------------
(* The adapter's methods *)

(* Faulty variant: the answer comes from a copy kept by the adapter (the    *)
(* snapshot of the last delete or sweep), not from the namespace.           *)
getFromLocalCopy(key) ==
    /\ op = NoCall
    /\ \E remoteOk \in BOOLEAN :
        LET fullKey == getFullKey(key)
            r == IF remoteOk THEN KvGet(pre, fullKey)
                 ELSE [ok |-> FALSE, value |-> JsUndefined]
        IN  /\ op' = Call("get", "kv-cache.ts", key, JsUndefined, Nothing, {})
            /\ trace' = <<RemoteCall("get", fullKey, "", 0,
                                     IF ~remoteOk THEN "fail"
                                     ELSE IF r.ok THEN "ok" ELSE "undecodable")>>
            /\ result' = IF r.ok
                         THEN Settled("fulfilled",
                                 IF r.value = JsNull THEN JsUndefined ELSE r.value)
                         ELSE Settled("rejected", JsUndefined)
    /\ UNCHANGED <<config, kv, pc, last, pre, quiet>>

(* get of src/src/kv-cache.ts: a failed read rejects the call. *)
get(key) ==
    /\ op = NoCall
    /\ \E remoteOk \in BOOLEAN :
        LET fullKey == getFullKey(key)
            r == IF remoteOk THEN KvGet(kv, fullKey)
                 ELSE [ok |-> FALSE, value |-> JsUndefined]
        IN  /\ op' = Call("get", "kv-cache.ts", key, JsUndefined, Nothing, {})
            /\ trace' = <<RemoteCall("get", fullKey, "", 0,
                                     IF ~remoteOk THEN "fail"
                                     ELSE IF r.ok THEN "ok" ELSE "undecodable")>>
            /\ result' = IF r.ok
                         THEN Settled("fulfilled",
                                 IF r.value = JsNull THEN JsUndefined ELSE r.value)
                         ELSE Settled("rejected", JsUndefined)
    /\ UNCHANGED <<config, kv, pc, last, pre, quiet>>

(* Faulty variant: the catch block rethrows. *)
getCatchingRethrows(key) ==
    /\ op = NoCall
    /\ \E remoteOk \in BOOLEAN :
        LET fullKey == getFullKey(key)
            r == IF remoteOk THEN KvGet(kv, fullKey)
                 ELSE [ok |-> FALSE, value |-> JsUndefined]
        IN  /\ op' = Call("get", "part_001", key, JsUndefined, Nothing, {})
            /\ trace' = <<RemoteCall("get", fullKey, "", 0,
                                     IF ~remoteOk THEN "fail"
                                     ELSE IF r.ok THEN "ok" ELSE "undecodable")>>
            /\ result' = IF r.ok
                         THEN Settled("fulfilled",
                                 IF r.value = JsNull THEN JsUndefined ELSE r.value)
                         ELSE Settled("rejected", JsUndefined)
    /\ UNCHANGED <<config, kv, pc, last, pre, quiet>>

(* get of src/unnamed/part_001: a failed read is caught and gives undefined. *)
getCatching(key) ==
    /\ op = NoCall
    /\ \E remoteOk \in BOOLEAN :
        LET fullKey == getFullKey(key)
            r == IF remoteOk THEN KvGet(kv, fullKey)
                 ELSE [ok |-> FALSE, value |-> JsUndefined]
        IN  /\ op' = Call("get", "part_001", key, JsUndefined, Nothing, {})
            /\ trace' = <<RemoteCall("get", fullKey, "", 0,
                                     IF ~remoteOk THEN "fail"
                                     ELSE IF r.ok THEN "ok" ELSE "undecodable")>>
            /\ result' = IF r.ok
                         THEN Settled("fulfilled",
                                 IF r.value = JsNull THEN JsUndefined ELSE r.value)
                         ELSE Settled("fulfilled", JsUndefined)
    /\ UNCHANGED <<config, kv, pc, last, pre, quiet>>

(* Faulty variant: a failed write is swallowed. *)
setSwallowing(key, value, ttlOverride) ==
    /\ op = NoCall
    /\ \E remoteOk \in BOOLEAN :
        LET fullKey == getFullKey(key)
            ttl == NullishOr(ttlOverride, defaultTTL)
            text == JSONStringify(value)
        IN  /\ op' = [Call("set", "both", key, value, ttlOverride, {})
                        EXCEPT !.ttl = ttl]
            /\ trace' = <<RemoteCall("put", fullKey, text, ttlSeconds(ttl),
                                     IF remoteOk THEN "ok" ELSE "fail")>>
            /\ kv' = IF remoteOk THEN KvPut(kv, fullKey, text) ELSE kv
            /\ result' = Settled("fulfilled", JsUndefined)
            /\ last' = [last EXCEPT
                          ![key] = IF remoteOk THEN WasSet(value) ELSE Untouched]
    /\ UNCHANGED <<config, pc, pre, quiet>>

set(key, value, ttlOverride) ==
    /\ op = NoCall
    /\ \E remoteOk \in BOOLEAN :
        LET fullKey == getFullKey(key)
            ttl == NullishOr(ttlOverride, defaultTTL)
            text == JSONStringify(value)
        IN  /\ op' = [Call("set", "both", key, value, ttlOverride, {})
                        EXCEPT !.ttl = ttl]
            /\ trace' = <<RemoteCall("put", fullKey, text, ttlSeconds(ttl),
                                     IF remoteOk THEN "ok" ELSE "fail")>>
            /\ kv' = IF remoteOk THEN KvPut(kv, fullKey, text) ELSE kv
            /\ result' = Settled(IF remoteOk THEN "fulfilled" ELSE "rejected",
                                 JsUndefined)
            /\ last' = [last EXCEPT
                          ![key] = IF remoteOk THEN WasSet(value) ELSE Untouched]
    /\ UNCHANGED <<config, pc, pre, quiet>>

(* Faulty variant: the key is passed to the namespace without its prefix. *)
deleteRawKey(key) ==
    /\ op = NoCall
    /\ \E remoteOk \in BOOLEAN :
        /\ op' = Call("delete", "both", key, JsUndefined, Nothing, {})
        /\ trace' = <<RemoteCall("delete", key, "", 0,
                                 IF remoteOk THEN "ok" ELSE "fail")>>
        /\ kv' = IF remoteOk THEN KvDelete(kv, key) ELSE kv
        /\ result' = Settled(IF remoteOk THEN "fulfilled" ELSE "rejected",
                             JsUndefined)
        /\ last' = [last EXCEPT
                      ![key] = IF remoteOk
                               THEN WasDeleted(Stored(kv, key) # Absent)
                               ELSE Untouched]
    /\ pre' = kv
    /\ UNCHANGED <<config, pc, quiet>>

delete(key) ==
    /\ op = NoCall
    /\ \E remoteOk \in BOOLEAN :
        LET fullKey == getFullKey(key)
        IN  /\ op' = Call("delete", "both", key, JsUndefined, Nothing, {})
            /\ trace' = <<RemoteCall("delete", fullKey, "", 0,
                                     IF remoteOk THEN "ok" ELSE "fail")>>
            /\ kv' = IF remoteOk THEN KvDelete(kv, fullKey) ELSE kv
            /\ result' = Settled(IF remoteOk THEN "fulfilled" ELSE "rejected",
                                 JsUndefined)
            /\ last' = [last EXCEPT
                          ![key] = IF remoteOk
                                   THEN WasDeleted(Stored(kv, fullKey) # Absent)
                                   ELSE Untouched]
    /\ pre' = kv
    /\ UNCHANGED <<config, pc, quiet>>

(* Faulty variant: each delete is awaited before the next is issued, so     *)
(* that only the first delete has been started when the call suspends.      *)
SweepOneAtATime(call, listOk, toDelete) ==
    LET listed == RemoteCall("list", keyPrefix, "", 0,
                             IF listOk THEN "ok" ELSE "fail")
        first == SubSeq(toDelete, 1, Min(1, Len(toDelete)))
        deletes == [i \in DOMAIN first |->
                      RemoteCall("delete", first[i], "", 0, "pending")]
        all == PromiseAll(DeleteStatuses(deletes))
    IN  /\ op' = call
        /\ trace' = IF listOk THEN <<listed>> \o deletes ELSE <<listed>>
        /\ result' = IF listOk THEN Settled(all, JsUndefined)
                     ELSE Settled("rejected", JsUndefined)
        /\ pc' = IF listOk /\ all = "pending" THEN "deleting" ELSE "idle"
        /\ last' = [k \in Keys |-> Untouched]
        /\ pre' = kv
        /\ quiet' = TRUE
        /\ UNCHANGED <<config, kv>>

(* The part deleteAllExcept and clear share: the list call has returned     *)
(* (or failed), and the deletes of toDelete are all started before          *)
(* Promise.all is awaited.                                                  *)
Sweep(call, listOk, toDelete) ==
    LET listed == RemoteCall("list", keyPrefix, "", 0,
                             IF listOk THEN "ok" ELSE "fail")
        deletes == [i \in DOMAIN toDelete |->
                      RemoteCall("delete", toDelete[i], "", 0, "pending")]
        all == PromiseAll(DeleteStatuses(deletes))
    IN  /\ op' = call
        /\ trace' = IF listOk THEN <<listed>> \o deletes ELSE <<listed>>
        /\ result' = IF listOk THEN Settled(all, JsUndefined)
                     ELSE Settled("rejected", JsUndefined)
        /\ pc' = IF listOk /\ all = "pending" THEN "deleting" ELSE "idle"
        /\ last' = [k \in Keys |-> Untouched]
        /\ pre' = kv
        /\ quiet' = TRUE
        /\ UNCHANGED <<config, kv>>

(* Faulty variant: the keep-set is not consulted. *)
deleteAllExceptKeepingNone(keysToKeep) ==
    /\ op = NoCall
    /\ \E listOk \in BOOLEAN :
        LET keys == KvList(kv, keyPrefix).keys
        IN  Sweep(Call("deleteAllExcept", "both", <<>>, JsUndefined, Nothing,
                       keysToKeep), listOk, keys)

deleteAllExcept(keysToKeep) ==
    /\ op = NoCall
    /\ \E listOk \in BOOLEAN :
        LET fullKeysToKeep == {getFullKey(k) : k \in keysToKeep}
            keys == KvList(kv, keyPrefix).keys
            toDelete == SelectSeq(keys, LAMBDA name : name \notin fullKeysToKeep)
        IN  Sweep(Call("deleteAllExcept", "both", <<>>, JsUndefined, Nothing,
                       keysToKeep), listOk, toDelete)

(* Faulty variant: the list call is made without the prefix option. *)
clearWholeNamespace ==
    /\ op = NoCall
    /\ \E listOk \in BOOLEAN :
        LET keys == KvList(kv, <<>>).keys
        IN  Sweep(Call("clear", "both", <<>>, JsUndefined, Nothing, {}),
                  listOk, keys)

clear ==
    /\ op = NoCall
    /\ \E listOk \in BOOLEAN :
        LET keys == KvList(kv, keyPrefix).keys
        IN  Sweep(Call("clear", "both", <<>>, JsUndefined, Nothing, {}),
                  listOk, keys)

(* Faulty variant: all or nothing. The first failure cancels the deletes    *)
(* still in flight and puts back what the batch had removed.                *)
DeleteSettleTransactional(i, ok) ==
    /\ i \in DOMAIN trace
    /\ trace[i].call = "delete"
    /\ trace[i].status = "pending"
    /\ trace' = IF ok THEN [trace EXCEPT ![i].status = "ok"]
                ELSE [j \in DOMAIN trace |->
                        IF trace[j].status = "pending"
                        THEN [trace[j] EXCEPT !.status = "fail"]
                        ELSE trace[j]]
    /\ kv' = IF ok THEN KvDelete(kv, trace[i].key)
             ELSE [n \in DOMAIN kv |->
                     IF \E j \in DOMAIN trace :
                           trace[j].call = "delete" /\ trace[j].key = n
                     THEN pre[n] ELSE kv[n]]
    /\ IF pc = "deleting"
       THEN LET all == PromiseAll(DeleteStatuses(trace'))
            IN  /\ result' = Settled(all, JsUndefined)
                /\ pc' = IF all = "pending" THEN "deleting" ELSE "idle"
       ELSE UNCHANGED <<result, pc>>
    /\ UNCHANGED <<config, op, last, pre, quiet>>

(* One of the started deletes settles. Promise.all rejects at the first     *)
(* failure and fulfils when the last delete has succeeded; the deletes      *)
(* still in flight when it rejects go on settling without the call.         *)
DeleteSettle(i, ok) ==
    /\ i \in DOMAIN trace
    /\ trace[i].call = "delete"
    /\ trace[i].status = "pending"
    /\ trace' = [trace EXCEPT ![i].status = IF ok THEN "ok" ELSE "fail"]
    /\ kv' = IF ok THEN KvDelete(kv, trace[i].key) ELSE kv
    /\ IF pc = "deleting"
       THEN LET all == PromiseAll(DeleteStatuses(trace'))
            IN  /\ result' = Settled(all, JsUndefined)
                /\ pc' = IF all = "pending" THEN "deleting" ELSE "idle"
       ELSE UNCHANGED <<result, pc>>
    /\ UNCHANGED <<config, op, last, pre, quiet>>

(* The caller's await resumes with the settled promise. A delete still in   *)
(* flight then is no longer told apart from another client's delete.        *)
Return ==
    /\ op # NoCall
    /\ pc = "idle"
    /\ op' = NoCall
    /\ trace' = <<>>
    /\ result' = Settled("none", JsUndefined)
    /\ pre' = NoSnapshot
    /\ quiet' = TRUE
    /\ UNCHANGED <<config, kv, pc, last>>

----------------------------------------------------------------------------
(* The rest of the world: expiry, and other clients of the namespace. They *)
(* act between two calls and while deletes of a sweep are in flight.        *)

WorldNames == {FullKey(k) : k \in Keys} \cup {Foreign}

WorldMayAct == op = NoCall \/ PendingDeletes(trace) # {}

World(name, store) ==
    /\ WorldMayAct
    /\ kv' = store
    /\ last' = Disturb(name)
    /\ pre' = NoSnapshot
    /\ quiet' = FALSE
    /\ UNCHANGED <<config, op, pc, trace, result>>

Expire(name) ==
    /\ Stored(kv, name) # Absent
    /\ World(name, KvDelete(kv, name))

ExternalPut(name, text) ==
    /\ name = Foreign => text = "2"
    /\ World(name, KvPut(kv, name, text))

ExternalDelete(name) == World(name, KvDelete(kv, name))

----------------------------------------------------------------------------

Next ==
    \/ \E k \in Keys : get(k)
    \/ \E k \in Keys : getCatching(k)
    \/ \E k \in Keys, v \in Values, t \in TtlOverrides : set(k, v, t)
    \/ \E k \in Keys : delete(k)
    \/ \E keep \in SUBSET Keys : deleteAllExcept(keep)
    \/ clear
    \/ \E i \in DOMAIN trace, ok \in BOOLEAN : DeleteSettle(i, ok)
    \/ Return
    \/ \E n \in WorldNames : Expire(n)
    \/ \E n \in WorldNames, text \in ExternalTexts : ExternalPut(n, text)
    \/ \E n \in WorldNames : ExternalDelete(n)

Spec == Init /\ [][Next]_vars

(* The TTL arithmetic of set, over every configuration and a wider range   *)
(* of overrides, on one key.                                                *)
NextTtl ==
    \/ \E t \in TtlInputs : set(<<"a">>, JsNumber(1), t)
    \/ Return
    \/ Expire(FullKey(<<"a">>))

SpecTtl == InitTtl /\ [][NextTtl]_vars

----------------------------------------------------------------------------
(* What the claims are stated over *)

UnderPrefix(name) == StartsWith(name, keyPrefix)

KeptNames == {FullKey(k) : k \in op.keysToKeep}

RemoteRead == trace[1]

(* C1: a get of k that follows a successful set(k, v), with no expiry,      *)
(* delete, sweep or other write of k in between, returns a value equal to   *)
(* v (the remote read itself having succeeded).                             *)
C1_SetThenGetReturnsValue ==
    (op.name = "get" /\ RemoteRead.status = "ok" /\ last[op.key].kind = "set")
        => (result.status = "fulfilled" /\ result.value = last[op.key].value)

(* C2: when deleteAllExcept(keysToKeep) has fulfilled and nothing else      *)
(* touched the namespace meanwhile, a name under the prefix holds what it   *)
(* held before the call if it is the full key of a kept key, and is absent  *)
(* otherwise: the names left are the kept ones that existed, with their     *)
(* values, and none is created.                                             *)
C2_DeleteAllExceptLeavesKept ==
    (op.name = "deleteAllExcept" /\ result.status = "fulfilled" /\ quiet)
        => \A n \in DOMAIN kv :
              UnderPrefix(n) => kv[n] = IF n \in KeptNames THEN pre[n] ELSE Absent

(* C3: when clear() has fulfilled and nothing else touched the namespace    *)
(* meanwhile, a listing under the prefix is empty and no name under the     *)
(* prefix holds a value any more.                                           *)
C3_ClearLeavesNothing ==
    (op.name = "clear" /\ result.status = "fulfilled" /\ quiet)
        => /\ KvList(kv, keyPrefix).keys = <<>>
           /\ \A n \in DOMAIN kv : UnderPrefix(n) => kv[n] = Absent

(* C4: a get of k that follows a completed delete(k), with nothing written  *)
(* to k in between, returns absent; and delete does not depend on the key   *)
(* existing: whenever its remote delete succeeds the call fulfils, the key  *)
(* is absent and every other name is as before, so that deleting a key      *)
(* that is already absent changes nothing and raises nothing.               *)
C4_DeleteThenAbsentAndIdempotent ==
    /\ (op.name = "get" /\ last[op.key].kind = "deleted")
          => /\ result.status = "fulfilled" => result.value = JsUndefined
             /\ RemoteRead.status # "fail" => result.status = "fulfilled"
    /\ (op.name = "delete" /\ trace[1].status = "ok")
          => /\ result.status = "fulfilled"
             /\ \A n \in DOMAIN kv :
                   kv[n] = IF n = FullKey(op.key) THEN Absent ELSE pre[n]
             /\ pre[FullKey(op.key)] = Absent => kv = pre
    /\ (op.name = "delete" /\ result.status = "rejected")
          => trace[1].status = "fail"

(* C4 witness: a key that did not exist was deleted without error, and the  *)
(* get that followed returned absent.                                       *)
C4_Witness ==
    /\ op.name = "get"
    /\ last[op.key] = WasDeleted(FALSE)
    /\ result = Settled("fulfilled", JsUndefined)

(* C5: every write of set carries max(ceil(ttl / 1000), 60) seconds, ttl    *)
(* being the effective TTL in milliseconds: at least 60, at least ttl /     *)
(* 1000, and when above 60 less than a second more than ttl / 1000. An      *)
(* override below 60000 gives exactly 60, an override of 125000 gives 125.  *)
C5_ExpirationIsCeilWithFloor ==
    op.name = "set" =>
        LET seconds == trace[1].ttl
        IN  /\ trace[1].call = "put"
            /\ seconds >= 60
            /\ seconds * 1000 >= op.ttl
            /\ seconds > 60 => (seconds - 1) * 1000 < op.ttl
            /\ (op.ttlOverride # Nothing /\ Val(op.ttlOverride) < 60000)
                  => seconds = 60
            /\ op.ttlOverride = Just(125000) => seconds = 125

(* C5 witness: a write whose override, 1500 ms, is below the floor and no   *)
(* multiple of a second went out with 60 seconds.                           *)
C5_Witness ==
    /\ op.name = "set"
    /\ op.ttlOverride = Just(1500)
    /\ trace[1].status = "ok"
    /\ trace[1].ttl = 60

ConfiguredPrefix ==
    IF options.keyPrefix # Nothing /\ Val(options.keyPrefix) # <<>>
    THEN Val(options.keyPrefix)
    ELSE DefaultPrefix

(* C6: the prefix is the one fixed at construction (the one supplied, or    *)
(* "schematic:" when none or an empty one is), never empty; every list call *)
(* is issued with exactly that prefix, every key passed to a remote read,   *)
(* write or delete starts with it, and get, set and delete pass exactly     *)
(* prefix + key.                                                            *)
C6_EveryRemoteKeyCarriesPrefix ==
    /\ keyPrefix = ConfiguredPrefix
    /\ keyPrefix # <<>>
    /\ \A i \in DOMAIN trace :
          IF trace[i].call = "list"
          THEN trace[i].key = ConfiguredPrefix
          ELSE /\ StartsWith(trace[i].key, ConfiguredPrefix)
               /\ op.name \in {"get", "set", "delete"}
                     => trace[i].key = ConfiguredPrefix \o op.key

(* C6 witness: constructed with an empty keyPrefix, a clear listed under    *)
(* "schematic:" and started two deletes.                                    *)
C6_Witness ==
    /\ options.keyPrefix = Just(<<>>)
    /\ op.name = "clear"
    /\ Len(trace) = 3
    /\ trace[1].key = DefaultPrefix

SweepCalls == {"deleteAllExcept", "clear"}

(* C7: a deleteAllExcept or clear one of whose deletes has failed is        *)
(* rejected, whatever the other deletes did and whenever they settled.      *)
C7_FailedDeleteRejectsSweep ==
    (/\ op.name \in SweepCalls
     /\ \E i \in DOMAIN trace :
           trace[i].call = "delete" /\ trace[i].status = "fail")
        => result.status = "rejected"

(* C7 witness: a sweep is rejected although one of its deletes succeeded.   *)
C7_Witness ==
    /\ op.name \in SweepCalls
    /\ result.status = "rejected"
    /\ \E i, j \in DOMAIN trace :
          /\ trace[i].call = "delete" /\ trace[i].status = "ok"
          /\ trace[j].call = "delete" /\ trace[j].status = "fail"

(* C8 as stated: get never raises, and returns absent when the remote read  *)
(* reports not-found, fails, or the stored text cannot be decoded.          *)
C8_GetNeverRaises ==
    op.name = "get" =>
        /\ result.status = "fulfilled"
        /\ (RemoteRead.status # "ok" \/ Stored(kv, RemoteRead.key) = Absent)
              => result.value = JsUndefined

(* C8 amended: on not-found get returns absent without raising; when the    *)
(* remote read fails or the stored text cannot be decoded, the get of       *)
(* src/unnamed/part_001 returns absent and the get of src/src/kv-cache.ts   *)
(* raises.                                                                  *)
C8_GetAbsentOrRaisesByVariant ==
    op.name = "get" =>
        /\ (RemoteRead.status = "ok" /\ Stored(kv, RemoteRead.key) = Absent)
              => result = Settled("fulfilled", JsUndefined)
        /\ op.src = "part_001"
              => /\ result.status = "fulfilled"
                 /\ RemoteRead.status # "ok" => result.value = JsUndefined
        /\ op.src = "kv-cache.ts"
              => (result.status = "rejected" <=> RemoteRead.status # "ok")

(* C8 witness: the catching get met a stored text that does not decode and  *)
(* returned absent.                                                         *)
C8_Witness ==
    /\ op.name = "get"
    /\ op.src = "part_001"
    /\ RemoteRead.status = "undecodable"
    /\ result = Settled("fulfilled", JsUndefined)

(* C9: set and delete issue one remote call and are rejected exactly when   *)
(* it fails; deleteAllExcept and clear issue one list call first, are       *)
(* rejected with no delete issued when it fails, issue at most one delete   *)
(* per name, and fulfil only if no remote call failed.                      *)
C9_RemoteFailuresPropagate ==
    /\ op.name \in {"set", "delete"}
          => /\ Len(trace) = 1
             /\ trace[1].call = IF op.name = "set" THEN "put" ELSE "delete"
             /\ result.status = IF trace[1].status = "fail"
                                THEN "rejected" ELSE "fulfilled"
    /\ op.name \in SweepCalls
          => /\ trace[1].call = "list"
             /\ \A i \in DOMAIN trace : i > 1 => trace[i].call = "delete"
             /\ trace[1].status = "fail"
                   => Len(trace) = 1 /\ result.status = "rejected"
             /\ \A i, j \in DOMAIN trace :
                   (i # j /\ trace[i].key = trace[j].key) => 1 \in {i, j}
             /\ result.status = "fulfilled"
                   => \A i \in DOMAIN trace : trace[i].status = "ok"

(* C9 witness: the list call of a clear failed while names were stored      *)
(* under the prefix; the clear was rejected and started no delete.          *)
C9_Witness ==
    /\ op.name = "clear"
    /\ trace[1].status = "fail"
    /\ result.status = "rejected"
    /\ \E n \in DOMAIN kv : UnderPrefix(n) /\ kv[n] # Absent

ConfiguredDefault ==
    IF options.ttl # Nothing /\ Val(options.ttl) # 0
    THEN Val(options.ttl)
    ELSE 5000

(* C10: the TTL of a set is its override whenever one is given, 0 and       *)
(* values below the default included, and otherwise the default fixed at    *)
(* construction (the configured one, or 5000); that default is the same in  *)
(* every state, whatever calls were made before.                            *)
C10_TtlIsOverrideElseDefault ==
    /\ defaultTTL = ConfiguredDefault
    /\ op.name = "set"
          => op.ttl = IF op.ttlOverride # Nothing
                      THEN Val(op.ttlOverride)
                      ELSE ConfiguredDefault

(* C10 witness: with a default of an hour configured, a set with override   *)
(* 0 used 0 and not the default.                                            *)
C10_Witness ==
    /\ defaultTTL = 3600000
    /\ op.name = "set"
    /\ op.ttlOverride = Just(0)
    /\ op.ttl = 0
    /\ trace[1].ttl = 60

(* The names a sweep is to remove: those stored under the prefix when it    *)
(* began, the kept ones excepted (clear keeps none).                        *)
Targeted == {n \in DOMAIN pre : UnderPrefix(n) /\ pre[n] # Absent} \ KeptNames

SweepDeletes == {i \in DOMAIN trace : trace[i].call = "delete"}

(* C11: when a deleteAllExcept or clear has fulfilled and nothing else      *)
(* touched the namespace meanwhile, a delete was issued for every non-kept  *)
(* name stored under the prefix when the call began, and each of them is    *)
(* absent, however many names the list call returns at a time.              *)
C11_SweepConsumesFullListing ==
    (op.name \in SweepCalls /\ result.status = "fulfilled" /\ quiet)
        => \A n \in Targeted :
              /\ \E i \in SweepDeletes : trace[i].key = n
              /\ kv[n] = Absent

CalledSweep == op = NoCall /\ op'.name \in SweepCalls

AwaitingSweep == op.name \in SweepCalls /\ op' = op

(* C12: the step that calls deleteAllExcept or clear issues the list call   *)
(* first and, only if it succeeded, one delete for each listed name that is *)
(* not kept, all of them started and none yet completed, with nothing       *)
(* removed so far; while the call is awaited no further remote call is      *)
(* issued; and the call is fulfilled only once every delete of the batch    *)
(* has completed successfully.                                              *)
C12_ListThenAllDeletesThenJoin ==
    [][/\ CalledSweep
          => /\ trace'[1].call = "list"
             /\ trace'[1].status = "fail" => Len(trace') = 1
             /\ trace'[1].status = "ok"
                   => [i \in 1..(Len(trace') - 1) |-> trace'[i + 1].key]
                        = SelectSeq(KvList(kv, keyPrefix).keys,
                                    LAMBDA n : n \notin KeptNames')
             /\ \A i \in 2..Len(trace') :
                   trace'[i].call = "delete" /\ trace'[i].status = "pending"
             /\ kv' = kv
       /\ AwaitingSweep
          => /\ Len(trace') = Len(trace)
             /\ \A i \in DOMAIN trace :
                   trace'[i].call = trace[i].call /\ trace'[i].key = trace[i].key
             /\ result.status # "pending" => result' = result
       /\ (op'.name \in SweepCalls /\ result'.status = "fulfilled")
          => \A i \in DOMAIN trace' : trace'[i].status = "ok"
      ]_vars

(* C12 witness: the list call of a sweep has returned and two deletes are   *)
(* in flight at once, neither completed, the call still awaiting them.      *)
C12_Witness ==
    /\ op.name \in SweepCalls
    /\ pc = "deleting"
    /\ result.status = "pending"
    /\ trace[1].status = "ok"
    /\ Cardinality(SweepDeletes) = 2
    /\ \A i \in SweepDeletes : trace[i].status = "pending"

Rejecting ==
    AwaitingSweep /\ result.status = "pending" /\ result'.status = "rejected"

AfterRejection == AwaitingSweep /\ result.status = "rejected"

(* C13: the step in which an awaited deleteAllExcept or clear is rejected   *)
(* is the failure of one delete: it changes nothing in the namespace and    *)
(* leaves every other delete as it was, in flight if it was in flight;      *)
(* after the rejection the result stays rejected, a delete still in flight  *)
(* that then succeeds removes its name all the same, and settled deletes    *)
(* stay settled; and no step of the call puts back a name that is absent.   *)
C13_FailedSweepIsNotTransactional ==
    [][/\ Rejecting
          => /\ kv' = kv
             /\ \E i \in SweepDeletes :
                   /\ trace[i].status = "pending"
                   /\ trace'[i].status = "fail"
                   /\ \A j \in DOMAIN trace \ {i} : trace'[j] = trace[j]
       /\ AfterRejection
          => /\ result' = result
             /\ \A i \in SweepDeletes :
                   /\ trace[i].status # "pending" => trace'[i] = trace[i]
                   /\ (trace[i].status = "pending" /\ trace'[i].status = "ok")
                         => kv' = KvDelete(kv, trace[i].key)
       /\ (AwaitingSweep /\ quiet')
          => \A n \in DOMAIN kv : kv[n] = Absent => kv'[n] = Absent
      ]_vars

(* C13 witness: a sweep has been rejected with nothing else touching the    *)
(* namespace, one of the names it issued a delete for is removed and        *)
(* another is still stored.                                                 *)
C13_Witness ==
    /\ op.name \in SweepCalls
    /\ result.status = "rejected"
    /\ quiet
    /\ \E i, j \in SweepDeletes :
          /\ pre[trace[i].key] # Absent /\ kv[trace[i].key] = Absent
          /\ pre[trace[j].key] # Absent /\ kv[trace[j].key] = pre[trace[j].key]

Called(name) == op = NoCall /\ op'.name = name

(* C14: a set(k, v) issues exactly one remote call, a write of the encoded  *)
(* v to prefix + k, which when it succeeds replaces whatever the name held  *)
(* (the value of an earlier set included) and changes no other name; a get  *)
(* issues exactly one remote call, a read of prefix + k, and changes no     *)
(* name; and a get of k whose read succeeds returns the value of the last   *)
(* completed set of k, nothing having touched k since.                      *)
C14_SetOverwritesOneKeyGetReadsOnly ==
    [][/\ Called("set")
          => /\ Len(trace') = 1
             /\ trace'[1].call = "put"
             /\ trace'[1].key = keyPrefix \o op'.key
             /\ trace'[1].text = JSONStringify(op'.value)
             /\ trace'[1].status = "ok" => kv'[trace'[1].key] = trace'[1].text
             /\ \A n \in DOMAIN kv' :
                   n # trace'[1].key => Stored(kv', n) = Stored(kv, n)
       /\ Called("get")
          => /\ Len(trace') = 1
             /\ trace'[1].call = "get"
             /\ trace'[1].key = keyPrefix \o op'.key
             /\ kv' = kv
             /\ (last[op'.key].kind = "set" /\ trace'[1].status = "ok")
                   => result' = Settled("fulfilled", last[op'.key].value)
      ]_vars

(* A step of the adapter: a call is made, one of its remote calls settles,  *)
(* or it returns. The steps of the rest of the world change neither.        *)
AdapterStep == op' # op \/ trace' # trace

(* C15: no step of the adapter, in clear, deleteAllExcept, set, delete or   *)
(* get, changes a name that does not start with the configured prefix: it   *)
(* stays stored with the same text, or stays absent. The entry o:a of a     *)
(* client with prefix "o:" is such a name for either prefix of the adapter. *)
C15_NamesOutsidePrefixUnchanged ==
    [][AdapterStep
          => \A n \in DOMAIN kv :
                ~UnderPrefix(n) => (n \in DOMAIN kv' /\ kv'[n] = kv[n])
      ]_vars

(* C15 witness: a clear has removed names under the prefix and fulfilled    *)
(* while the other client's entry, stored before the call, is still there.  *)
C15_Witness ==
    /\ op.name = "clear"
    /\ result.status = "fulfilled"
    /\ quiet
    /\ SweepDeletes # {}
    /\ ~UnderPrefix(Foreign)
    /\ pre[Foreign] # Absent
    /\ kv[Foreign] = pre[Foreign]

(* What a read of the namespace reports for a name, as get hands it on:     *)
(* the decoding of the text stored at that moment, and the absent marker    *)
(* when the read reports null, which it does when nothing is stored.        *)
Reported(store, name) ==
    LET reply == KvGet(store, name).value
    IN  IF reply = JsNull THEN JsUndefined ELSE reply

BatchNames == {trace[i].key : i \in SweepDeletes}

(* C17: the deletes a deleteAllExcept or clear issues are for names its own *)
(* list call returned, stored under the prefix at that moment, and for no   *)
(* kept name; the batch is fixed from then on, whatever is written or       *)
(* removed by others while it is in flight, so that a name first written    *)
(* after the listing is never in it; the call issues no remote write; and   *)
(* a step of the call changes the namespace only by removing one name of    *)
(* its batch.                                                               *)
C17_SweepDeletesOnlyListedNonKept ==
    [][/\ CalledSweep
          => \A i \in 2..Len(trace') :
                /\ trace'[i].call = "delete"
                /\ \E j \in DOMAIN KvList(kv, keyPrefix).keys :
                      KvList(kv, keyPrefix).keys[j] = trace'[i].key
                /\ kv[trace'[i].key] # Absent
                /\ trace'[i].key \notin KeptNames'
       /\ AwaitingSweep
          => /\ BatchNames' = BatchNames
             /\ \A i \in DOMAIN trace' : trace'[i].call \in {"list", "delete"}
             /\ AdapterStep
                   => \A n \in DOMAIN kv :
                         kv'[n] # kv[n]
                            => /\ kv'[n] = Absent
                               /\ n \in BatchNames
                               /\ n \notin KeptNames
      ]_vars

(* C17 witness: a clear whose listing was complete (fewer names than a page *)
(* holds) has fulfilled, and a name under the prefix that is not in its     *)
(* batch holds the text another client wrote while the batch was in flight. *)
C17_Witness ==
    /\ op.name = "clear"
    /\ result.status = "fulfilled"
    /\ SweepDeletes # {}
    /\ Cardinality(SweepDeletes) < ListLimit
    /\ \E k \in Keys :
          FullKey(k) \notin BatchNames /\ kv[FullKey(k)] = "2"

====
